---- MODULE Spec2Model ----
(***************************************************************************)
(* AsyncEventIterator (packages/events/src/event-iterator.ts): an adapter  *)
(* that turns the notifications of a Node EventEmitter into an async       *)
(* iterator.  The model keeps the emitter's listener lists, the fields of  *)
(* every iterator instance and the promises its methods have returned.     *)
(***************************************************************************)
EXTENDS Integers, Sequences, FiniteSets, TLC

\* ------------------------------------------------------------------------
\* Bounds of the model
\* ------------------------------------------------------------------------
MaxEmits == 3      \* notifications fired on the emitter in one behaviour
MaxCalls == 3      \* next()/return()/throw() calls per instance

\* ------------------------------------------------------------------------
\* Values
\* ------------------------------------------------------------------------
Undefined == "undefined"              \* an absent string / payload
NoObject  == [undefined |-> TRUE]     \* an absent object reference
\* The payloads the source fires, in firing order: pairwise distinct, so
\* that every entry can be told apart from every other one.
PayloadOf == <<"p1", "p2", "p3", "p4", "p5", "p6", "p7", "p8">>
Errors    == {"boom"}                 \* values a consumer passes to throw()
Channels  == {"a", "b", "done", "error"}   \* names fired on the emitter

Range(s) == {s[i] : i \in DOMAIN s}

\* The promise returned by one call.  `by` records which piece of code
\* settled it ("" while it is pending).
Pending == [st |-> "pending", value |-> NoObject, done |-> FALSE,
            reason |-> Undefined, by |-> ""]
Resolved(value, done, by) ==
    [st |-> "resolved", value |-> value, done |-> done,
     reason |-> Undefined, by |-> by]
Rejected(reason, by) ==
    [st |-> "rejected", value |-> NoObject, done |-> FALSE,
     reason |-> reason, by |-> by]

VARIABLES
    emitter,    \* EventEmitter: channel name -> sequence of listeners
    iter,       \* instance -> the fields of the AsyncEventIterator object
    promises,   \* instance -> the promises its calls returned, in call order
    calls,      \* instance -> the method called, parallel to promises
    removed,    \* instance -> the listeners it passed to removeListener
    emitted,    \* every notification fired on the emitter, in order
    fired       \* instance -> notifications on its channels fired while it
                \*             was attached and listening

vars == <<emitter, iter, promises, calls, removed, emitted, fired>>

\* The part of the state the methods of the class read and write.
World == [emitter |-> emitter, iter |-> iter, promises |-> promises,
          removed |-> removed]

\* ------------------------------------------------------------------------
\* EventEmitter (Node's events module, as used by the class)
\* ------------------------------------------------------------------------
addListener(em, eventName, listener) ==
    [em EXCEPT ![eventName] = Append(@, listener)]

\* Faulty variant of removeListener: every listener of the channel is
\* removed, as removeAllListeners(eventName) does.
removeListener_All(em, eventName, listener) ==
    [em EXCEPT ![eventName] = <<>>]

\* removeListener removes at most one instance of the listener, the most
\* recently added one; removing a listener that is not registered is a no-op.
removeListener(em, eventName, listener) ==
    LET s   == em[eventName]
        idx == {i \in DOMAIN s : s[i] = listener}
    IN  IF idx = {} THEN em
        ELSE LET i == CHOOSE j \in idx : \A k \in idx : k <= j
             IN  [em EXCEPT ![eventName] =
                     SubSeq(s, 1, i - 1) \o SubSeq(s, i + 1, Len(s))]

\* ------------------------------------------------------------------------
\* AsyncEventIterator
\* ------------------------------------------------------------------------
\* Field initialisers (lines 21-32) before the constructor body runs.
NewIterator(eventNames, options) ==
    [eventNames     |-> eventNames,
     options        |-> options,
     promiseQueue   |-> <<>>,
     eventQueue     |-> <<>>,
     listening      |-> TRUE,
     listenersAdded |-> FALSE,
     listeners      |-> [n \in {} |-> NoObject],
     doneListener   |-> NoObject,
     errorListener  |-> NoObject]

\* createListener: a fresh closure over (this, eventName).  k tells apart
\* closures created by different calls.
createListener(self, eventName, k) ==
    [self |-> self, eventName |-> eventName, k |-> k]

\* Faulty variant of pushEvent: the entry is buffered even when a pull is pending.
pushEvent_AlwaysBuffer(w, self, event, eventName) ==
    [w EXCEPT !.iter[self].eventQueue =
                  Append(@, [name |-> eventName, data |-> event])]

\* Faulty variant of pushEvent: pop() instead of shift(), the newest pending pull is
\* served first.
pushEvent_Pop(w, self, event, eventName) ==
    LET this  == w.iter[self]
        entry == [name |-> eventName, data |-> event]
        q     == this.promiseQueue
    IN  IF Len(q) # 0
        THEN LET p == q[Len(q)]
                 settled ==
                     IF eventName = this.options.errorEventName
                     THEN Rejected(event, "pushEvent")
                     ELSE Resolved(entry,
                                   eventName = this.options.doneEventName,
                                   "pushEvent")
             IN  [w EXCEPT !.iter[self].promiseQueue = SubSeq(q, 1, Len(q) - 1),
                           !.promises[self][p] = settled]
        ELSE [w EXCEPT !.iter[self].eventQueue = Append(@, entry)]

\* Faulty variant of pushEvent: the buffer keeps the latest entry only.
pushEvent_KeepsLatest(w, self, event, eventName) ==
    LET this  == w.iter[self]
        entry == [name |-> eventName, data |-> event]
    IN  IF Len(this.promiseQueue) # 0
        THEN LET p == Head(this.promiseQueue)
                 settled ==
                     IF eventName = this.options.errorEventName
                     THEN Rejected(event, "pushEvent")
                     ELSE Resolved(entry,
                                   eventName = this.options.doneEventName,
                                   "pushEvent")
             IN  [w EXCEPT !.iter[self].promiseQueue = Tail(@),
                           !.promises[self][p] = settled]
        ELSE [w EXCEPT !.iter[self].eventQueue = <<entry>>]

\* pushEvent (lines 53-68): hand the entry to the oldest pending pull, or
\* buffer it.
pushEvent(w, self, event, eventName) ==
    LET this  == w.iter[self]
        entry == [name |-> eventName, data |-> event]
    IN  IF Len(this.promiseQueue) # 0
        THEN LET p == Head(this.promiseQueue)
                 settled ==
                     IF eventName = this.options.errorEventName
                     THEN Rejected(event, "pushEvent")
                     ELSE Resolved(entry,
                                   eventName = this.options.doneEventName,
                                   "pushEvent")
             IN  [w EXCEPT !.iter[self].promiseQueue = Tail(@),
                           !.promises[self][p] = settled]
        ELSE [w EXCEPT !.iter[self].eventQueue = Append(@, entry)]

\* Faulty variant of pullEvent: pop() instead of shift(), the newest buffered entry
\* is delivered first.
pullEvent_Pop(w, self, p) ==
    LET this == w.iter[self]
        q    == this.eventQueue
    IN  IF Len(q) # 0
        THEN LET entry == q[Len(q)]
                 settled ==
                     IF entry.name = this.options.errorEventName
                     THEN Rejected(entry.data, "pullEvent")
                     ELSE Resolved(entry,
                                   entry.name = this.options.doneEventName,
                                   "pullEvent")
             IN  [w EXCEPT !.iter[self].eventQueue = SubSeq(q, 1, Len(q) - 1),
                           !.promises[self][p] = settled]
        ELSE [w EXCEPT !.iter[self].promiseQueue = Append(@, p)]

\* Faulty variant of pullEvent: a buffered error-channel entry is resolved like any
\* other entry instead of rejecting the pull.
pullEvent_NoReject(w, self, p) ==
    LET this == w.iter[self]
    IN  IF Len(this.eventQueue) # 0
        THEN LET entry == Head(this.eventQueue)
             IN  [w EXCEPT !.iter[self].eventQueue = Tail(@),
                           !.promises[self][p] =
                               Resolved(entry,
                                        entry.name = this.options.doneEventName,
                                        "pullEvent")]
        ELSE [w EXCEPT !.iter[self].promiseQueue = Append(@, p)]

\* Faulty variant of pullEvent: a buffered error-channel entry also ends the
\* listening.
pullEvent_ErrorEnds(w, self, p) ==
    LET this == w.iter[self]
    IN  IF Len(this.eventQueue) # 0
        THEN LET entry == Head(this.eventQueue)
             IN  IF entry.name = this.options.errorEventName
                 THEN [w EXCEPT !.iter[self].eventQueue = Tail(@),
                                !.iter[self].listening = FALSE,
                                !.promises[self][p] =
                                    Rejected(entry.data, "pullEvent")]
                 ELSE [w EXCEPT !.iter[self].eventQueue = Tail(@),
                                !.promises[self][p] =
                                    Resolved(entry,
                                             entry.name
                                                 = this.options.doneEventName,
                                             "pullEvent")]
        ELSE [w EXCEPT !.iter[self].promiseQueue = Append(@, p)]

\* pullEvent (lines 73-91): p is the promise under construction; settle it
\* with the oldest buffered entry, or defer it.
pullEvent(w, self, p) ==
    LET this == w.iter[self]
    IN  IF Len(this.eventQueue) # 0
        THEN LET entry == Head(this.eventQueue)
                 settled ==
                     IF entry.name = this.options.errorEventName
                     THEN Rejected(entry.data, "pullEvent")
                     ELSE Resolved(entry,
                                   entry.name = this.options.doneEventName,
                                   "pullEvent")
             IN  [w EXCEPT !.iter[self].eventQueue = Tail(@),
                           !.promises[self][p] = settled]
        ELSE [w EXCEPT !.iter[self].promiseQueue = Append(@, p)]

\* addEventListeners (lines 112-132).
RECURSIVE AddNamed(_, _, _)
AddNamed(w, self, i) ==
    LET this == w.iter[self]
    IN  IF i > Len(this.eventNames) THEN w
        ELSE LET eventName == this.eventNames[i]
                 listener  == createListener(self, eventName, i)
             IN  AddNamed(
                     [w EXCEPT
                        !.emitter = addListener(@, eventName, listener),
                        !.iter[self].listeners = (eventName :> listener) @@ @],
                     self, i + 1)

addEventListeners(w, self) ==
    LET w1   == AddNamed(w, self, 1)
        opts == w1.iter[self].options
        n    == Len(w1.iter[self].eventNames)
        dl   == createListener(self, opts.doneEventName, n + 1)
        w2   == IF opts.doneEventName # Undefined
                THEN [w1 EXCEPT
                        !.iter[self].doneListener = dl,
                        !.emitter = addListener(@, opts.doneEventName, dl)]
                ELSE w1
        el   == createListener(self, opts.errorEventName, n + 2)
    IN  IF opts.errorEventName # Undefined
        THEN [w2 EXCEPT
                !.iter[self].errorListener = el,
                !.emitter = addListener(@, opts.errorEventName, el)]
        ELSE w2

\* removeEventListeners (lines 134-153).  The for-in loop visits the keys of
\* this.listeners; the listeners it removes are distinct, so the result does
\* not depend on the order of the visit.
RECURSIVE RemoveNamed(_, _)
RemoveNamed(w, self) ==
    LET ls == w.iter[self].listeners
    IN  IF DOMAIN ls = {} THEN w
        ELSE LET eventName == CHOOSE n \in DOMAIN ls : TRUE
             IN  RemoveNamed(
                     [w EXCEPT
                        !.emitter = removeListener(@, eventName, ls[eventName]),
                        !.removed[self] = Append(@, ls[eventName]),
                        !.iter[self].listeners =
                            [n \in DOMAIN ls \ {eventName} |-> ls[n]]],
                     self)

removeEventListeners(w, self) ==
    LET w1 == RemoveNamed(w, self)
        t1 == w1.iter[self]
        w2 == IF t1.doneListener # NoObject
              THEN [w1 EXCEPT
                      !.emitter = removeListener(@, t1.options.doneEventName,
                                                 t1.doneListener),
                      !.removed[self] = Append(@, t1.doneListener),
                      !.iter[self].doneListener = NoObject]
              ELSE w1
        t2 == w2.iter[self]
    IN  IF t2.errorListener # NoObject
        THEN [w2 EXCEPT
                !.emitter = removeListener(@, t2.options.errorEventName,
                                           t2.errorListener),
                !.removed[self] = Append(@, t2.errorListener),
                !.iter[self].errorListener = NoObject]
        ELSE w2

\* Faulty variant of drain: only the oldest pending pull is resolved before the
\* queues are emptied.
drain_ResolveFirstOnly(w, self) ==
    IF w.iter[self].listening
    THEN LET w1 == [w EXCEPT !.iter[self].listening = FALSE]
             w2 == IF w1.iter[self].listenersAdded
                   THEN removeEventListeners(w1, self)
                   ELSE w1
             q  == w2.iter[self].promiseQueue
         IN  [w2 EXCEPT
                !.promises[self] =
                    [i \in DOMAIN @ |->
                        IF q # <<>> /\ i = Head(q)
                        THEN Resolved(NoObject, TRUE, "drain")
                        ELSE @[i]],
                !.iter[self].promiseQueue = <<>>,
                !.iter[self].eventQueue = <<>>]
    ELSE w

\* Faulty variant of drain: the buffered entries are kept.
drain_KeepsEvents(w, self) ==
    IF w.iter[self].listening
    THEN LET w1 == [w EXCEPT !.iter[self].listening = FALSE]
             w2 == IF w1.iter[self].listenersAdded
                   THEN removeEventListeners(w1, self)
                   ELSE w1
             q  == w2.iter[self].promiseQueue
         IN  [w2 EXCEPT
                !.promises[self] =
                    [i \in DOMAIN @ |->
                        IF i \in Range(q)
                        THEN Resolved(NoObject, TRUE, "drain")
                        ELSE @[i]],
                !.iter[self].promiseQueue = <<>>]
    ELSE w

\* drain (lines 96-106).
drain(w, self) ==
    IF w.iter[self].listening
    THEN LET w1 == [w EXCEPT !.iter[self].listening = FALSE]
             w2 == IF w1.iter[self].listenersAdded
                   THEN removeEventListeners(w1, self)
                   ELSE w1
             q  == w2.iter[self].promiseQueue
         IN  [w2 EXCEPT
                !.promises[self] =
                    [i \in DOMAIN @ |->
                        IF i \in Range(q)
                        THEN Resolved(NoObject, TRUE, "drain")
                        ELSE @[i]],
                !.iter[self].promiseQueue = <<>>,
                !.iter[self].eventQueue = <<>>]
    ELSE w

\* Faulty variant of return: done is taken from the listening flag as it was before
\* drain ran.
return_DoneFromFlag(w, self) ==
    LET w1 == drain(w, self)
        doneEventName == w1.iter[self].options.doneEventName
        result ==
            Resolved([name |-> IF doneEventName # Undefined
                               THEN doneEventName ELSE "done",
                      data |-> Undefined],
                     ~w.iter[self].listening, "return")
    IN  [w1 EXCEPT !.promises[self] = Append(@, result)]

\* return (lines 166-173); the promise it returns is appended to the
\* instance's promises.
return(w, self) ==
    LET w1 == drain(w, self)
        doneEventName == w1.iter[self].options.doneEventName
        result ==
            Resolved([name |-> IF doneEventName # Undefined
                               THEN doneEventName ELSE "done",
                      data |-> Undefined],
                     TRUE, "return")
    IN  [w1 EXCEPT !.promises[self] = Append(@, result)]

\* Faulty variant of throw: the pending pulls are rejected with the error before
\* the teardown.
throw_RejectsPending(w, self, error) ==
    LET q  == w.iter[self].promiseQueue
        w0 == [w EXCEPT
                 !.promises[self] =
                     [i \in DOMAIN @ |->
                         IF i \in Range(q) THEN Rejected(error, "throw")
                         ELSE @[i]],
                 !.iter[self].promiseQueue = <<>>]
        w1 == drain(w0, self)
    IN  [w1 EXCEPT !.promises[self] = Append(@, Rejected(error, "throw"))]

\* throw (lines 175-178).
throw(w, self, error) ==
    LET w1 == drain(w, self)
    IN  [w1 EXCEPT !.promises[self] = Append(@, Rejected(error, "throw"))]

\* Faulty variant of next: the listening flag is not consulted.
next_NoListeningCheck(w, self) ==
    LET w1 == IF ~w.iter[self].listenersAdded
              THEN [addEventListeners(w, self) EXCEPT
                       !.iter[self].listenersAdded = TRUE]
              ELSE w
        p  == Len(w1.promises[self]) + 1
        w2 == [w1 EXCEPT !.promises[self] = Append(@, Pending)]
    IN  pullEvent(w2, self, p)

\* next (lines 155-164).
next(w, self) ==
    IF ~w.iter[self].listening
    THEN return(w, self)
    ELSE LET w1 == IF ~w.iter[self].listenersAdded
                   THEN [addEventListeners(w, self) EXCEPT
                            !.iter[self].listenersAdded = TRUE]
                   ELSE w
             p  == Len(w1.promises[self]) + 1
             w2 == [w1 EXCEPT !.promises[self] = Append(@, Pending)]
         IN  pullEvent(w2, self, p)

\* Faulty variant of constructor: listenersAdded is not set after the eager
\* attach.
constructor_NoFlag(w, self, eventNames, options) ==
    LET w1 == [w EXCEPT
                 !.iter = (self :> NewIterator(eventNames, options)) @@ @,
                 !.promises = (self :> <<>>) @@ @,
                 !.removed = (self :> <<>>) @@ @]
    IN  IF options.listenNow
        THEN addEventListeners(w1, self)
        ELSE w1

\* Faulty variant of constructor: the listeners are attached whenever an
\* options object is present, whatever its listenNow.
constructor_AlwaysAttaches(w, self, eventNames, options) ==
    LET w1 == [w EXCEPT
                 !.iter = (self :> NewIterator(eventNames, options)) @@ @,
                 !.promises = (self :> <<>>) @@ @,
                 !.removed = (self :> <<>>) @@ @]
    IN  [addEventListeners(w1, self) EXCEPT
            !.iter[self].listenersAdded = TRUE]

\* constructor (lines 34-47): the instance self is created in world w.
constructor(w, self, eventNames, options) ==
    LET w1 == [w EXCEPT
                 !.iter = (self :> NewIterator(eventNames, options)) @@ @,
                 !.promises = (self :> <<>>) @@ @,
                 !.removed = (self :> <<>>) @@ @]
    IN  IF options.listenNow
        THEN [addEventListeners(w1, self) EXCEPT
                 !.iter[self].listenersAdded = TRUE]
        ELSE w1

\* emit: the emitter calls the listeners registered for eventName, in the
\* order they were added, on a copy of the list taken when emit starts.
RECURSIVE CallListeners(_, _, _)
CallListeners(w, ls, event) ==
    IF ls = <<>> THEN w
    ELSE CallListeners(
             pushEvent(w, Head(ls).self, event, Head(ls).eventName),
             Tail(ls), event)

emit(w, eventName, event) == CallListeners(w, w.emitter[eventName], event)

\* ------------------------------------------------------------------------
\* The state machine
\* ------------------------------------------------------------------------
EventNames == <<"a", "b">>
\* The default value of the options parameter (lines 37-40), with or
\* without listenNow set by the caller.
StdOptions(listenNow) ==
    [doneEventName |-> "done", errorEventName |-> "error",
     listenNow |-> listenNow]

EmptyWorld ==
    [emitter  |-> [c \in Channels |-> <<>>],
     iter     |-> [i \in {} |-> NoObject],
     promises |-> [i \in {} |-> <<>>],
     removed  |-> [i \in {} |-> <<>>]]

\* Attached and not drained: the state in which the instance is meant to
\* receive the notifications of its channels.
Active(self) == iter[self].listenersAdded /\ iter[self].listening

Watched(self) ==
    (Range(iter[self].eventNames)
        \cup {iter[self].options.doneEventName,
              iter[self].options.errorEventName}) \ {Undefined}

SetWorld(w) ==
    /\ emitter' = w.emitter
    /\ iter' = w.iter
    /\ promises' = w.promises
    /\ removed' = w.removed

InitWorld(w) ==
    /\ emitter = w.emitter
    /\ iter = w.iter
    /\ promises = w.promises
    /\ removed = w.removed
    /\ calls = [i \in DOMAIN w.iter |-> <<>>]
    /\ fired = [i \in DOMAIN w.iter |-> <<>>]
    /\ emitted = <<>>

\* One instance over the emitter, constructed with the default sentinel
\* names, lazily or eagerly.
Init ==
    \E listenNow \in BOOLEAN :
        InitWorld(constructor(EmptyWorld, 1, EventNames, StdOptions(listenNow)))

CallNext(self) ==
    /\ Len(calls[self]) < MaxCalls
    /\ SetWorld(next(World, self))
    /\ calls' = [calls EXCEPT ![self] = Append(@, "next")]
    /\ UNCHANGED <<emitted, fired>>

CallReturn(self) ==
    /\ Len(calls[self]) < MaxCalls
    /\ SetWorld(return(World, self))
    /\ calls' = [calls EXCEPT ![self] = Append(@, "return")]
    /\ UNCHANGED <<emitted, fired>>

CallThrow(self, error) ==
    /\ Len(calls[self]) < MaxCalls
    /\ SetWorld(throw(World, self, error))
    /\ calls' = [calls EXCEPT ![self] = Append(@, "throw")]
    /\ UNCHANGED <<emitted, fired>>

\* The source fires eventName with payload event.
Emit(eventName, event) ==
    /\ Len(emitted) < MaxEmits
    /\ SetWorld(emit(World, eventName, event))
    /\ emitted' = Append(emitted, [name |-> eventName, data |-> event])
    /\ fired' = [self \in DOMAIN fired |->
                    IF Active(self) /\ eventName \in Watched(self)
                    THEN Append(fired[self],
                                [name |-> eventName, data |-> event])
                    ELSE fired[self]]
    /\ UNCHANGED calls

Next ==
    \/ \E self \in DOMAIN iter : CallNext(self)
    \/ \E self \in DOMAIN iter : CallReturn(self)
    \/ \E self \in DOMAIN iter, error \in Errors : CallThrow(self, error)
    \/ \E eventName \in Channels :
           Emit(eventName, PayloadOf[Len(emitted) + 1])

Spec == Init /\ [][Next]_vars

\* ------------------------------------------------------------------------
\* Properties
\* ------------------------------------------------------------------------
Last(s) == s[Len(s)]
Min(a, b) == IF a <= b THEN a ELSE b

HasPending(self) ==
    \E i \in DOMAIN promises[self] : promises[self][i].st = "pending"

OldestPending(self) ==
    CHOOSE i \in DOMAIN promises[self] :
        /\ promises[self][i].st = "pending"
        /\ \A k \in 1..(i - 1) : promises[self][k].st # "pending"

\* The step is a call of one of the methods in ops on instance self.
Called(self, ops) ==
    /\ Len(calls'[self]) = Len(calls[self]) + 1
    /\ Last(calls'[self]) \in ops

\* The step fires a notification.
Fires == Len(emitted') = Len(emitted) + 1

\* C1: the buffered event queue and the pending-pull queue of an instance
\* are never both non-empty.
C1_QueuesNeverBothNonEmpty ==
    \A self \in DOMAIN iter :
        ~(Len(iter[self].eventQueue) # 0 /\ Len(iter[self].promiseQueue) # 0)

\* A pending pull was served by a notification and later notifications
\* were buffered.
C1_Witness ==
    \E self \in DOMAIN iter :
        /\ Len(iter[self].eventQueue) # 0
        /\ \E i \in DOMAIN promises[self] : promises[self][i].by = "pushEvent"

\* C2: the j-th pull receives the j-th notification fired since attach:
\* when that notification is on one of the watched channels the pull is
\* resolved with exactly that entry, not done, whatever the channels of the
\* notifications around it.
C2_OrderPreservation ==
    \A self \in DOMAIN iter :
        \A j \in 1..Min(Len(fired[self]), Len(promises[self])) :
            (/\ fired[self][j].name \in Range(iter[self].eventNames)
             /\ promises[self][j].by \notin {"return", "throw"})
            => /\ promises[self][j].st = "resolved"
               /\ promises[self][j].value = fired[self][j]
               /\ promises[self][j].done = FALSE

\* Two buffered entries of different channels were pulled, in firing order.
C2_Witness ==
    \E self \in DOMAIN iter :
        /\ Len(promises[self]) >= 2
        /\ promises[self][1].by = "pullEvent"
        /\ promises[self][2].by = "pullEvent"
        /\ promises[self][1].st = "resolved"
        /\ promises[self][2].st = "resolved"
        /\ promises[self][1].value.name = "b"
        /\ promises[self][2].value.name = "a"

\* What a pull matched with entry e is settled with (section 4.1 of the
\* specification).
Outcome(self, e, by) ==
    IF e.name = iter[self].options.errorEventName
    THEN Rejected(e.data, by)
    ELSE Resolved(e, e.name = iter[self].options.doneEventName, by)

\* C3: a notification fired on a channel of the instance while pulls are
\* outstanding settles the oldest outstanding pull with that notification
\* and leaves every other promise as it was.
C3_PendingServedFIFO ==
    [][\A self \in DOMAIN iter :
          (/\ Fires
           /\ HasPending(self)
           /\ Last(emitted').name \in Watched(self))
          => promises'[self] =
                 [promises[self] EXCEPT ![OldestPending(self)] =
                     Outcome(self, Last(emitted'), "pushEvent")]]_vars

\* Two pulls were outstanding and one notification settled the first only.
C3_Witness ==
    \E self \in DOMAIN iter :
        /\ Len(promises[self]) >= 2
        /\ promises[self][1].by = "pushEvent"
        /\ promises[self][2].st = "pending"

\* C4: a call of return() or throw() resolves every pull pending at that
\* moment with done = true and leaves the pending-pull queue empty.
C4_NoDanglingWaiterOnStop ==
    [][\A self \in DOMAIN iter :
          Called(self, {"return", "throw"})
          => /\ \A i \in DOMAIN promises[self] :
                   promises[self][i].st = "pending"
                   => /\ promises'[self][i].st = "resolved"
                      /\ promises'[self][i].done
             /\ iter'[self].promiseQueue = <<>>
             /\ ~HasPending(self)']_vars

\* Two pulls were outstanding when the instance was stopped.
C4_Witness ==
    \E self \in DOMAIN iter :
        /\ Len(promises[self]) >= 3
        /\ promises[self][1].by = "drain"
        /\ promises[self][2].by = "drain"
        /\ calls[self][3] \in {"return", "throw"}

\* Some pull of the instance was matched with a done-channel entry.
DoneMatched(self) ==
    \E i \in DOMAIN promises[self] :
        /\ promises[self][i].by \in {"pushEvent", "pullEvent"}
        /\ promises[self][i].st = "resolved"
        /\ promises[self][i].done

\* The listeners of instance self registered on the emitter.
Attached(self) ==
    UNION {{l \in Range(emitter[c]) : l.self = self} : c \in Channels}

\* C5: once a pull has been matched with a done-channel entry the instance
\* is drained: not listening, its handlers detached, both queues empty.
C5_DoneMatchDrains ==
    \A self \in DOMAIN iter :
        DoneMatched(self)
        => /\ ~iter[self].listening
           /\ Attached(self) = {}
           /\ iter[self].eventQueue = <<>>
           /\ iter[self].promiseQueue = <<>>

\* C6: after a pull has been matched with a done-channel entry, every
\* next() returns a resolved promise with done = true that carries no
\* notification, and registers no listener.
C6_DoneTerminatesCleanly ==
    [][\A self \in DOMAIN iter :
          (DoneMatched(self) /\ Called(self, {"next"}))
          => /\ Last(promises'[self]).st = "resolved"
             /\ Last(promises'[self]).done
             /\ Last(promises'[self]).by \notin {"pushEvent", "pullEvent"}
             /\ \A c \in Channels : Len(emitter'[c]) <= Len(emitter[c])]_vars

\* C7: when a done-channel notification is fired while pulls of the
\* instance are outstanding, none of them is still pending afterwards.
C7_DoneSettlesEveryPending ==
    [][\A self \in DOMAIN iter :
          (/\ Fires
           /\ HasPending(self)
           /\ Last(emitted').name = iter[self].options.doneEventName)
          => ~HasPending(self)']_vars

\* C8: a pull is rejected by a notification exactly when the notification
\* in its queue position is on the error channel; the reason is the fired
\* payload, and every earlier pull has been settled with the notification
\* of its own position.
C8_ErrorOrdering ==
    \A self \in DOMAIN iter :
        /\ \A j \in 1..Min(Len(fired[self]), Len(promises[self])) :
              (/\ fired[self][j].name = iter[self].options.errorEventName
               /\ promises[self][j].by \notin {"return", "throw"})
              => /\ promises[self][j].st = "rejected"
                 /\ promises[self][j].reason = fired[self][j].data
                 /\ \A i \in 1..(j - 1) :
                       /\ promises[self][i].st # "pending"
                       /\ fired[self][i].name
                              # iter[self].options.errorEventName
                          => /\ promises[self][i].st = "resolved"
                             /\ promises[self][i].value = fired[self][i]
        /\ \A j \in DOMAIN promises[self] :
              (promises[self][j].st = "rejected" /\ calls[self][j] = "next")
              => /\ j <= Len(fired[self])
                 /\ fired[self][j].name = iter[self].options.errorEventName
                 /\ promises[self][j].reason = fired[self][j].data

\* Entry A then an error were buffered; pull 1 got A, pull 2 was rejected.
C8_Witness ==
    \E self \in DOMAIN iter :
        /\ Len(promises[self]) >= 2
        /\ promises[self][1].by = "pullEvent"
        /\ promises[self][1].st = "resolved"
        /\ promises[self][1].value.name = "a"
        /\ promises[self][2].by = "pullEvent"
        /\ promises[self][2].st = "rejected"
        /\ promises[self][2].reason = fired[self][2].data

\* C9: a call of throw(err) returns a promise rejected with err, resolves
\* every pull pending at that moment with {value: undefined, done: true},
\* changes no other promise, and leaves the instance and the emitter as
\* return() would.
C9_ThrowFailsOnlyItsCaller ==
    [][\A self \in DOMAIN iter :
          Called(self, {"throw"})
          => /\ Len(promises'[self]) = Len(promises[self]) + 1
             /\ Last(promises'[self]).st = "rejected"
             /\ Last(promises'[self]).reason \in Errors
             /\ \A i \in DOMAIN promises[self] :
                   promises'[self][i] =
                       IF promises[self][i].st = "pending"
                       THEN Resolved(NoObject, TRUE, "drain")
                       ELSE promises[self][i]
             /\ iter' = return(World, self).iter
             /\ emitter' = return(World, self).emitter]_vars

\* throw() was called while two pulls were pending.
C9_Witness ==
    \E self \in DOMAIN iter :
        /\ Len(promises[self]) >= 3
        /\ calls[self][3] = "throw"
        /\ promises[self][3].st = "rejected"
        /\ promises[self][1].by = "drain"
        /\ promises[self][2].by = "drain"

\* C10: every return() yields a resolved promise with done = true, the
\* only rejected promise of a return()/throw() call is throw's own, no
\* listener is passed to removeListener twice, and a return()/throw() on an
\* instance that is no longer listening changes neither the instance nor
\* the emitter.
C10_IdempotentLifecycle ==
    /\ [](\A self \in DOMAIN iter :
            /\ \A i \in DOMAIN promises[self] :
                  /\ calls[self][i] = "return"
                     => /\ promises[self][i].st = "resolved"
                        /\ promises[self][i].done
                  /\ calls[self][i] = "throw"
                     => /\ promises[self][i].st = "rejected"
                        /\ promises[self][i].reason \in Errors
            /\ \A i, j \in DOMAIN removed[self] :
                  i # j => removed[self][i] # removed[self][j])
    /\ [][\A self \in DOMAIN iter :
             Called(self, {"return", "throw"})
             => /\ \A i \in DOMAIN promises[self] :
                      promises'[self][i].st # "rejected"
                      \/ promises'[self][i] = promises[self][i]
                /\ ~iter[self].listening
                   => /\ iter' = iter
                      /\ emitter' = emitter
                      /\ removed' = removed]_vars

\* An attached instance was stopped twice.
C10_Witness ==
    \E self \in DOMAIN iter :
        /\ Len(calls[self]) >= 2
        /\ calls[self][Len(calls[self]) - 1] \in {"return", "throw"}
        /\ calls[self][Len(calls[self])] \in {"return", "throw"}
        /\ Len(removed[self]) = Len(iter[self].eventNames) + 2

\* return() or throw() has been called on the instance.
Stopped(self) ==
    \E i \in DOMAIN calls[self] : calls[self][i] \in {"return", "throw"}

\* C11: once return() or throw() has been called, every next() returns the
\* terminal result of return() at once, no pull is queued, and no listener
\* of the instance is registered on the emitter again.
C11_DrainedIsTerminal ==
    [][\A self \in DOMAIN iter :
          Stopped(self)
          => /\ Called(self, {"next"})
                => /\ Last(promises'[self]) =
                          Resolved([name |-> "done", data |-> Undefined],
                                   TRUE, "return")
                   /\ iter'[self].promiseQueue = <<>>
             /\ Attached(self)' \subseteq Attached(self)
             /\ iter'[self].listenersAdded = iter[self].listenersAdded
             /\ ~iter'[self].listening]_vars

\* The instance was stopped before any listener was attached, and next()
\* was called afterwards.
C11_Witness ==
    \E self \in DOMAIN iter :
        /\ Len(calls[self]) >= 2
        /\ calls[self][1] \in {"return", "throw"}
        /\ calls[self][2] = "next"
        /\ ~iter[self].options.listenNow

\* The listeners of instance self registered for channel c.
AttachedOn(self, c) ==
    {i \in DOMAIN emitter[c] : emitter[c][i].self = self}

\* C12: the emitter never holds more than one handler of an instance per
\* channel, and once the instance has attached no handler of it is added.
C12_AttachAtMostOnce ==
    /\ [](\A self \in DOMAIN iter : \A c \in Channels :
             Cardinality(AttachedOn(self, c)) <= 1)
    /\ [][\A self \in DOMAIN iter :
             Attached(self) # {} => Attached(self)' \subseteq Attached(self)]_vars

\* An instance attached by its constructor has been pulled from.
C12_Witness ==
    \E self \in DOMAIN iter :
        /\ iter[self].options.listenNow
        /\ Len(calls[self]) >= 2
        /\ calls[self][1] = "next"
        /\ calls[self][2] = "next"
        /\ Attached(self) # {}

\* ------------------------------------------------------------------------
\* Other configurations of one instance
\* ------------------------------------------------------------------------
\* The options parameter (lines 37-40): the default value applies only when
\* the caller passes no options object at all (NoObject).
OptionsParameter(arg) ==
    IF arg = NoObject THEN StdOptions(FALSE) ELSE arg

\* Options objects a caller passes: none, one naming both sentinel channels,
\* one that sets only listenNow, and an empty one.
OptionArgs ==
    {NoObject,
     StdOptions(TRUE),
     [doneEventName |-> Undefined, errorEventName |-> Undefined,
      listenNow |-> TRUE],
     [doneEventName |-> Undefined, errorEventName |-> Undefined,
      listenNow |-> FALSE]}

\* Lists of channel names a caller passes: distinct names, a repeated name,
\* and a name equal to a sentinel name.
NameLists == {<<"a", "b">>, <<"a", "a">>, <<"a", "done">>}

InitAny ==
    \E eventNames \in NameLists, arg \in OptionArgs :
        InitWorld(constructor(EmptyWorld, 1, eventNames,
                              OptionsParameter(arg)))

SpecAny == InitAny /\ [][Next]_vars

\* C13: after return() or throw() no handler of the instance is left on
\* the emitter and nothing is in its event queue, whatever the list of
\* channel names.
C13_DetachIsComplete ==
    \A self \in DOMAIN iter :
        Stopped(self)
        => /\ Attached(self) = {}
           /\ iter[self].eventQueue = <<>>

\* The done and error channels of the instance when the options name none.
DoneChannel(self) ==
    IF iter[self].options.doneEventName # Undefined
    THEN iter[self].options.doneEventName ELSE "done"

ErrorChannel(self) ==
    IF iter[self].options.errorEventName # Undefined
    THEN iter[self].options.errorEventName ELSE "error"

\* The pull was settled by a notification.
Matched(pr) == pr.by \in {"pushEvent", "pullEvent"}

\* C14: an attached instance has a handler on its done channel and on its
\* error channel, "done" and "error" when the options name none; a pull
\* matched with a done-channel entry is done, and none is resolved with an
\* error-channel entry.
C14_SentinelDefaults ==
    \A self \in DOMAIN iter :
        /\ Active(self)
           => /\ AttachedOn(self, DoneChannel(self)) # {}
              /\ AttachedOn(self, ErrorChannel(self)) # {}
        /\ \A i \in DOMAIN promises[self] :
              (Matched(promises[self][i]) /\ promises[self][i].st = "resolved")
              => /\ promises[self][i].value.name # ErrorChannel(self)
                 /\ promises[self][i].value.name = DoneChannel(self)
                    => promises[self][i].done

\* The entries the instance has handed to pulls or holds in its buffer.
EntriesSeen(self) ==
    Cardinality({i \in DOMAIN promises[self] : Matched(promises[self][i])})
    + Len(iter[self].eventQueue)

\* C15: a notification fired on a channel of an attached instance gives
\* the consumer exactly one entry, also when the channel is listed twice.
C15_OneEntryPerNotification ==
    [][\A self \in DOMAIN iter :
          (/\ Fires
           /\ Active(self)
           /\ Last(emitted').name \in Watched(self))
          => EntriesSeen(self)' = EntriesSeen(self) + 1]_vars

\* The entry a pull settled by a notification was matched with.
EntryOf(self, pr) ==
    IF pr.st = "rejected"
    THEN [name |-> iter[self].options.errorEventName, data |-> pr.reason]
    ELSE pr.value

\* The entries handed to the first n pulls of the instance, in call order.
RECURSIVE DeliveredUpTo(_, _)
DeliveredUpTo(self, n) ==
    IF n = 0 THEN <<>>
    ELSE IF Matched(promises[self][n])
         THEN Append(DeliveredUpTo(self, n - 1),
                     EntryOf(self, promises[self][n]))
         ELSE DeliveredUpTo(self, n - 1)

Delivered(self) == DeliveredUpTo(self, Len(promises[self]))

\* C16: while an instance is attached and listening, the entries handed to
\* its pulls followed by the entries in its buffer are exactly the
\* notifications fired on its channels since it attached: none is dropped,
\* none is handed out twice.
C16_NoEntryDropped ==
    \A self \in DOMAIN iter :
        Active(self)
        => /\ Delivered(self) \o iter[self].eventQueue = fired[self]
           /\ EntriesSeen(self) = Len(fired[self])

\* One notification went to a pending pull and two more were buffered.
C16_Witness ==
    \E self \in DOMAIN iter :
        /\ Active(self)
        /\ Len(fired[self]) = 3
        /\ Len(iter[self].eventQueue) = 2
        /\ Len(Delivered(self)) = 1

\* ------------------------------------------------------------------------
\* Two instances over one emitter
\* ------------------------------------------------------------------------
Init2 ==
    \E l1 \in BOOLEAN, l2 \in BOOLEAN :
        InitWorld(constructor(
                      constructor(EmptyWorld, 1, EventNames, StdOptions(l1)),
                      2, EventNames, StdOptions(l2)))

RECURSIVE SumCalls(_)
SumCalls(S) ==
    IF S = {} THEN 0
    ELSE LET i == CHOOSE j \in S : TRUE
         IN  Len(calls[i]) + SumCalls(S \ {i})

\* Method calls made on all instances together.
TotalCalls == SumCalls(DOMAIN calls)

\* The steps of Next, with MaxCalls bounding the calls of both instances
\* together and one notification less than MaxEmits.
Within2 == TotalCalls' <= MaxCalls /\ Len(emitted') < MaxEmits

Next2 ==
    \/ \E self \in DOMAIN iter : CallNext(self) /\ Within2
    \/ \E self \in DOMAIN iter : CallReturn(self) /\ Within2
    \/ \E self \in DOMAIN iter, error \in Errors :
           CallThrow(self, error) /\ Within2
    \/ \E eventName \in Channels :
           Emit(eventName, PayloadOf[Len(emitted) + 1]) /\ Within2

Spec2 == Init2 /\ [][Next2]_vars

\* The listeners of instance self on channel c of emitter em, in order.
HandlersOf(em, self, c) == SelectSeq(em[c], LAMBDA l : l.self = self)

\* C17: a notification on the channels of two attached instances adds
\* exactly that entry to what each of them has seen, and a return() or
\* throw() on one instance leaves the fields, the promises and the
\* registered handlers of the other unchanged.
C17_InstancesIndependent ==
    [][\A self \in DOMAIN iter :
          /\ (/\ Fires
              /\ Active(self)
              /\ Last(emitted').name \in Watched(self))
             => (Delivered(self) \o iter[self].eventQueue)'
                    = Append(Delivered(self) \o iter[self].eventQueue,
                             Last(emitted'))
          /\ Called(self, {"return", "throw"})
             => \A other \in DOMAIN iter \ {self} :
                   /\ iter'[other] = iter[other]
                   /\ promises'[other] = promises[other]
                   /\ \A c \in Channels :
                         HandlersOf(emitter', other, c)
                             = HandlersOf(emitter, other, c)]_vars

\* Both instances were attached and received a notification; one was then
\* stopped and the other is still attached.
C17_Witness ==
    \E self \in DOMAIN iter : \E other \in DOMAIN iter \ {self} :
        /\ ~iter[self].listening
        /\ Len(removed[self]) = Len(iter[self].eventNames) + 2
        /\ Len(fired[self]) >= 1
        /\ Active(other)
        /\ Attached(other) # {}
        /\ Len(fired[other]) >= 1
        /\ EntriesSeen(other) >= 1

\* The first return() or throw() call of a stopped instance.
FirstStop(self) ==
    CHOOSE i \in DOMAIN calls[self] :
        /\ calls[self][i] \in {"return", "throw"}
        /\ \A k \in 1..(i - 1) : calls[self][k] = "next"

\* C18: after return() or throw() the buffer of the instance is empty, and
\* no later call is settled with a notification: a later next() or return()
\* is resolved with done = true and only throw() itself is rejected.
C18_CancellationDiscardsBuffer ==
    \A self \in DOMAIN iter :
        Stopped(self)
        => /\ iter[self].eventQueue = <<>>
           /\ \A i \in DOMAIN promises[self] :
                 i > FirstStop(self)
                 => /\ ~Matched(promises[self][i])
                    /\ calls[self][i] # "throw"
                       => /\ promises[self][i].st = "resolved"
                          /\ promises[self][i].done
                          /\ promises[self][i].value.data = Undefined

\* The instance was stopped while an error-channel entry was in its buffer,
\* and next() was called afterwards.
C18_Witness ==
    \E self \in DOMAIN iter :
        /\ Stopped(self)
        /\ calls[self][Len(calls[self])] = "next"
        /\ FirstStop(self) < Len(calls[self])
        /\ \E j \in DOMAIN fired[self] :
              /\ j > Len(Delivered(self))
              /\ fired[self][j].name = iter[self].options.errorEventName

\* The notifications fired so far on the channels of the instance.
EmittedOn(self) ==
    SelectSeq(emitted, LAMBDA e : e.name \in Watched(self))

\* C19: an instance constructed without listenNow has no handler and an
\* empty buffer until its first call, notifications fired until then do not
\* change it, and its first next() attaches and stays pending; an instance
\* constructed with listenNow has its handlers from construction on, and
\* what it hands to pulls followed by its buffer is every notification
\* fired on its channels since construction, in firing order.
C19_LazyVersusEager ==
    /\ [](\A self \in DOMAIN iter :
             /\ (~iter[self].options.listenNow /\ calls[self] = <<>>)
                => /\ Attached(self) = {}
                   /\ iter[self].eventQueue = <<>>
             /\ (iter[self].options.listenNow /\ calls[self] = <<>>)
                => /\ Cardinality(Attached(self))
                          = Len(iter[self].eventNames) + 2
                   /\ iter[self].eventQueue = EmittedOn(self)
             /\ (iter[self].options.listenNow /\ iter[self].listening)
                => Delivered(self) \o iter[self].eventQueue
                       = EmittedOn(self))
    /\ [][\A self \in DOMAIN iter :
             (~iter[self].options.listenNow /\ calls[self] = <<>>)
             => /\ Fires
                   => /\ iter'[self] = iter[self]
                      /\ promises'[self] = promises[self]
                /\ Called(self, {"next"})
                   => /\ Last(promises'[self]).st = "pending"
                      /\ Cardinality(Attached(self)')
                             = Len(iter[self].eventNames) + 2]_vars

\* A notification was fired before the first next() of an instance
\* constructed without listenNow, and that next() is pending.
C19_Witness ==
    \E self \in DOMAIN iter :
        /\ ~iter[self].options.listenNow
        /\ Len(emitted) >= 1
        /\ Len(calls[self]) = 1
        /\ promises[self][1].st = "pending"

\* The next() calls of the instance that a notification rejected.
ErrorAt(self) ==
    {j \in DOMAIN promises[self] :
        promises[self][j].st = "rejected" /\ calls[self][j] = "next"}

\* C20: after a pull has failed with an error-channel payload, and until
\* return() or throw() is called, the instance is still listening with all
\* its handlers registered, and every later pull that a notification has
\* reached is settled with the notification of its own position.
C20_ErrorDoesNotEndSequence ==
    \A self \in DOMAIN iter :
        (ErrorAt(self) # {} /\ ~Stopped(self))
        => /\ iter[self].listening
           /\ iter[self].listenersAdded
           /\ Cardinality(Attached(self)) = Len(iter[self].eventNames) + 2
           /\ \A j \in ErrorAt(self) :
                 \A i \in (j + 1)..Min(Len(fired[self]), Len(promises[self])) :
                    /\ Matched(promises[self][i])
                    /\ promises[self][i]
                           = Outcome(self, fired[self][i], promises[self][i].by)

\* Pull 1 failed with an error payload and pull 2 got a later notification.
C20_Witness ==
    \E self \in DOMAIN iter :
        /\ Len(promises[self]) >= 2
        /\ promises[self][1].st = "rejected"
        /\ calls[self][1] = "next"
        /\ promises[self][2].st = "resolved"
        /\ Matched(promises[self][2])
        /\ ~promises[self][2].done

====
